---- MODULE Spec2Model ----
(***************************************************************************)
(* Model of the OpenGOAL launcher's frontend RPC wrapper (invoke_and_log   *)
(* and the typed operations built on it) and of the Electron main process  *)
(* window lifecycle (index.js).                                            *)
(***************************************************************************)
EXTENDS Integers, Sequences, FiniteSets, TLC

VARIABLES
    pc,            \* per call: "idle", "pending" (awaiting invoke), "done"
    req,           \* per call: the operation called and its arguments
    sent,          \* per call: the requests handed to the backend's invoke
    outcome,       \* per call: how the backend promise settled
    trace,         \* per call: toast / errorLog / exceptionLog / handle events, in order
    inner,         \* per call: completion of invoke_and_log (returned / raised)
    result,        \* per call: completion of the exported operation
    platform,      \* process.platform of the main process
    appState,      \* "starting", "running", "quit"
    mainWindow,    \* the module variable mainWindow: 0 is undefined, else a window id
    windows,       \* BrowserWindow.getAllWindows(): [id |-> n, parent |-> m]
    created,       \* number of BrowserWindows constructed so far
    jobs,          \* the jobs (build, launch) started over IPC, which emit 'status' / 'console'
    lastSend       \* what the last 'status' / 'console' handler did

invokerVars == <<pc, req, sent, outcome, trace, inner, result>>
mainVars == <<platform, appState, mainWindow, windows, created, jobs, lastSend>>
vars == <<pc, req, sent, outcome, trace, inner, result,
          platform, appState, mainWindow, windows, created, jobs, lastSend>>

----------------------------------------------------------------------------
(* Bounds *)

NumCalls == 2
MaxWindows == 3

Calls == 1..NumCalls

----------------------------------------------------------------------------
(* JavaScript values.  A primitive is [t, b, n, s]; a value adds the array  *)
(* items and the two properties the catch block reads, name and message.   *)

P(t, b, n, s) == [t |-> t, b |-> b, n |-> n, s |-> s]
UndefP == P("undefined", FALSE, 0, "")
NullP == P("null", FALSE, 0, "")
BoolP(b) == P("boolean", b, 0, "")
NumP(n) == P("number", FALSE, n, "")
StrP(s) == P("string", FALSE, 0, s)

V(p, a, name, message) ==
    [t |-> p.t, b |-> p.b, n |-> p.n, s |-> p.s, a |-> a, name |-> name, message |-> message]
Lift(p) == V(p, <<>>, UndefP, UndefP)
Undefined == Lift(UndefP)
Null == Lift(NullP)
Bool(b) == Lift(BoolP(b))
Num(n) == Lift(NumP(n))
Str(s) == Lift(StrP(s))
Arr(a) == V(P("array", FALSE, 0, ""), a, UndefP, UndefP)
Obj(name, message) == V(P("object", FALSE, 0, ""), <<>>, name, message)

\* typeof e
TypeOf(e) == IF e.t \in {"null", "array"} THEN "object" ELSE e.t

\* ToBoolean, as applied by && and if
Truthy(p) ==
    CASE p.t = "undefined" -> FALSE
      [] p.t = "null" -> FALSE
      [] p.t = "boolean" -> p.b
      [] p.t = "number" -> p.n # 0
      [] p.t = "string" -> p.s # ""
      [] OTHER -> TRUE

Digit(d) == SubSeq("0123456789", d + 1, d + 1)

RECURSIVE NatToString(_)
NatToString(n) == IF n < 10 THEN Digit(n) ELSE NatToString(n \div 10) \o Digit(n % 10)

\* ToString, as applied by a template literal to a primitive
JsToString(p) ==
    CASE p.t = "undefined" -> "undefined"
      [] p.t = "null" -> "null"
      [] p.t = "boolean" -> (IF p.b THEN "true" ELSE "false")
      [] p.t = "number" -> (IF p.n < 0 THEN "-" \o NatToString(0 - p.n) ELSE NatToString(p.n))
      [] OTHER -> p.s

\* Reading a property of null or undefined throws a TypeError
CanReadProps(e) == e.t \notin {"undefined", "null"}

----------------------------------------------------------------------------
(* The exported operations: backend method, arguments, fallback producer   *)

Ops == {"listDownloadedVersions", "downloadOfficialVersion", "removeVersion",
        "openVersionFolder", "getActiveVersion", "getActiveVersionFolder",
        "ensureActiveVersionStillExists"}

Method(op) ==
    CASE op = "listDownloadedVersions" -> "list_downloaded_versions"
      [] op = "downloadOfficialVersion" -> "download_version"
      [] op = "removeVersion" -> "remove_version"
      [] op = "openVersionFolder" -> "open_version_folder"
      [] op = "getActiveVersion" -> "get_active_tooling_version"
      [] op = "getActiveVersionFolder" -> "get_active_tooling_version_folder"
      [] op = "ensureActiveVersionStillExists" -> "ensure_active_version_still_exists"
      [] OTHER -> "none"

\* the handle argument each operation passes: () => [], () => false, ...
Handle(op, e) ==
    CASE op = "listDownloadedVersions" -> Arr(<<>>)
      [] op = "downloadOfficialVersion" -> Bool(FALSE)
      [] op = "removeVersion" -> Bool(FALSE)
      [] op = "openVersionFolder" -> Undefined
      [] op = "getActiveVersion" -> Null
      [] op = "getActiveVersionFolder" -> Null
      [] op = "ensureActiveVersionStillExists" -> Bool(FALSE)
      [] OTHER -> Undefined

\* type VersionFolders = null | "official" | "unofficial" | "devel"
VersionFolders == {NullP, StrP("official"), StrP("unofficial"), StrP("devel")}
VersionNames == {StrP("v0.1.32")}
Urls == {StrP("https://example.test/v0.1.32.zip")}

MkArgs(passed, version, versionFolder, url) ==
    [passed |-> passed, version |-> version, versionFolder |-> versionFolder, url |-> url]
NoArgs == MkArgs(FALSE, UndefP, UndefP, UndefP)

\* the InvokeArgs each operation builds from its parameters
ArgsOf(op) ==
    CASE op = "listDownloadedVersions" ->
            {MkArgs(TRUE, UndefP, f, UndefP) : f \in VersionFolders}
      [] op = "downloadOfficialVersion" ->
            {MkArgs(TRUE, v, StrP("official"), u) : v \in VersionNames, u \in Urls}
      [] op = "removeVersion" ->
            {MkArgs(TRUE, v, f, UndefP) : v \in VersionNames, f \in VersionFolders \ {NullP}}
      [] op = "openVersionFolder" ->
            {MkArgs(TRUE, UndefP, f, UndefP) : f \in VersionFolders}
      [] OTHER -> {NoArgs}

----------------------------------------------------------------------------
(* Effects on the toast store and the log sinks                            *)

Ev(kind, text, level, val) == [kind |-> kind, text |-> text, level |-> level, val |-> val]
MakeToast(message, level) == Ev("toast", "", level, message)
ErrorLog(line) == Ev("errorLog", line, "", Undefined)
ExceptionLog(label, e) == Ev("exceptionLog", label, "", e)
HandleCalled(e) == Ev("handle", "", "", e)

Completion(status, val) == [status |-> status, val |-> val]
NotCompleted == Completion("none", Undefined)
TypeErrorValue == Obj(StrP("TypeError"), StrP("Cannot read properties (reading 'name')"))

----------------------------------------------------------------------------
(* invoke_and_log                                                          *)

\* e.name && e.message
IsStructured(e) == Truthy(e.name) /\ Truthy(e.message)

\* a faulty variant of IsPlainString: e && typeof e === "string"
IsNonEmptyString(e) == Truthy(e) /\ TypeOf(e) = "string"

\* typeof e === "string"
IsPlainString(e) == TypeOf(e) = "string"

StructuredLine(method, e) ==
    "Error invoking " \o method \o ": (" \o JsToString(e.name) \o ") " \o JsToString(e.message)

StringLine(method, e) == "Error invoking " \o method \o ": " \o e.s

ExceptionLabel(method) == "Error invoking " \o method

\* the three branches of the catch block, before handle(e)
CatchEffects(method, e) ==
    IF IsStructured(e)
    THEN <<MakeToast(Lift(e.message), "error"), ErrorLog(StructuredLine(method, e))>>
    ELSE IF IsPlainString(e)
    THEN <<MakeToast(e, "error"), ErrorLog(StringLine(method, e))>>
    ELSE <<ExceptionLog(ExceptionLabel(method), e)>>

\* a faulty variant of OnFulfilled: a falsy value is treated as a failure and replaced
\* by the fallback
OnFulfilledFalsyFallsBack(method, op, v) ==
    IF Truthy(v)
    THEN [done |-> Completion("returned", v), effects |-> <<>>]
    ELSE [done |-> Completion("returned", Handle(op, v)), effects |-> <<HandleCalled(v)>>]

\* try { return await invoke(method, args) }: the promise was fulfilled with v
OnFulfilled(method, op, v) ==
    [done |-> Completion("returned", v), effects |-> <<>>]

\* catch (e) { ... return handle(e) }: the promise was rejected with e
OnRejected(method, op, e) ==
    IF ~CanReadProps(e)
    THEN [done |-> Completion("raised", TypeErrorValue), effects |-> <<>>]
    ELSE [done |-> Completion("returned", Handle(op, e)),
          effects |-> CatchEffects(method, e) \o <<HandleCalled(e)>>]

\* success !== false
NotStrictlyFalse(v) == ~(v.t = "boolean" /\ v.b = FALSE)

\* what the exported operation does with the awaited invoke_and_log
Export(op, done) ==
    IF done.status = "raised" THEN done
    ELSE IF op \in {"downloadOfficialVersion", "removeVersion"}
    THEN Completion("returned", Bool(NotStrictlyFalse(done.val)))
    ELSE done

----------------------------------------------------------------------------
(* Calls of the exported operations                                        *)

NoReq == [op |-> "none", args |-> NoArgs]
NotSettled == [settled |-> "none", val |-> Undefined]
Settled(how, val) == [settled |-> how, val |-> val]

\* a faulty variant of Call: a call whose request is already outstanding joins it
\* instead of making its own round trip
CallDeduplicated(c, op, args) ==
    /\ pc[c] = "idle"
    /\ pc' = [pc EXCEPT ![c] = "pending"]
    /\ req' = [req EXCEPT ![c] = [op |-> op, args |-> args]]
    /\ sent' = IF \E d \in Calls : pc[d] = "pending" /\ req[d] = [op |-> op, args |-> args]
               THEN sent
               ELSE [sent EXCEPT ![c] = Append(@, [method |-> Method(op), args |-> args])]
    /\ UNCHANGED <<outcome, trace, inner, result>>

\* an exported operation is called: it calls invoke_and_log, which calls
\* invoke(method, args) and suspends on the backend's promise
Call(c, op, args) ==
    /\ pc[c] = "idle"
    /\ pc' = [pc EXCEPT ![c] = "pending"]
    /\ req' = [req EXCEPT ![c] = [op |-> op, args |-> args]]
    /\ sent' = [sent EXCEPT ![c] = Append(@, [method |-> Method(op), args |-> args])]
    /\ UNCHANGED <<outcome, trace, inner, result>>

\* the rest of invoke_and_log and of the exported operation, run when the
\* backend's promise settles
Resume(c, how, r) ==
    /\ pc' = [pc EXCEPT ![c] = "done"]
    /\ outcome' = [outcome EXCEPT ![c] = how]
    /\ trace' = [trace EXCEPT ![c] = @ \o r.effects]
    /\ inner' = [inner EXCEPT ![c] = r.done]
    /\ result' = [result EXCEPT ![c] = Export(req[c].op, r.done)]
    /\ UNCHANGED <<req, sent>>

Fulfil(c, v) ==
    /\ pc[c] = "pending"
    /\ Resume(c, Settled("fulfilled", v), OnFulfilled(Method(req[c].op), req[c].op, v))

Reject(c, e) ==
    /\ pc[c] = "pending"
    /\ Resume(c, Settled("rejected", e), OnRejected(Method(req[c].op), req[c].op, e))

\* values a backend promise may settle with
FieldNames == {UndefP, StrP(""), StrP("IOError"), NumP(7)}
FieldMessages == {UndefP, StrP(""), StrP("not found"), NumP(7)}
Values ==
    {Undefined, Null, Bool(TRUE), Bool(FALSE), Num(0), Num(42), Str(""), Str("not found"),
     Arr(<<>>), Arr(<<"v0.1.32">>)}
    \cup {Obj(n, m) : n \in FieldNames, m \in FieldMessages}

ConcOps == {"downloadOfficialVersion", "getActiveVersion", "ensureActiveVersionStillExists"}
ConcValues ==
    {Null, Bool(TRUE), Bool(FALSE), Str("not found"), Obj(StrP("IOError"), StrP("not found"))}

InitInvoker ==
    /\ pc = [c \in Calls |-> "idle"]
    /\ req = [c \in Calls |-> NoReq]
    /\ sent = [c \in Calls |-> <<>>]
    /\ outcome = [c \in Calls |-> NotSettled]
    /\ trace = [c \in Calls |-> <<>>]
    /\ inner = [c \in Calls |-> NotCompleted]
    /\ result = [c \in Calls |-> NotCompleted]

----------------------------------------------------------------------------
(* The Electron main process                                               *)

Platforms == {"darwin", "win32", "linux"}

Win(id, parent, title) == [id |-> id, parent |-> parent, title |-> title]
IsOpen(id) == \E w \in windows : w.id = id

Send(channel, value, status, notified) ==
    [channel |-> channel, value |-> value, status |-> status, notified |-> notified]
NothingSent == Send("", "", "none", FALSE)

\* String.prototype.includes
Includes(value, sub) ==
    \E i \in 1..(Len(value) - Len(sub) + 1) : SubSeq(value, i, i + Len(sub) - 1) = sub

StatusValues == {"Compiling game...", "Compiled game successfully!"}
ConsoleValues == {"[goalc] ready"}

\* createWindow: mainWindow = new BrowserWindow(...)
createWindow ==
    /\ created < MaxWindows
    /\ created' = created + 1
    /\ mainWindow' = created + 1
    /\ windows' = windows \cup {Win(created + 1, 0, "OpenGOAL Launcher")}

\* app.on('ready', createWindow)
Ready ==
    /\ appState = "starting"
    /\ appState' = "running"
    /\ createWindow
    /\ UNCHANGED <<platform, jobs, lastSend>>

\* app.on('window-all-closed'): quit unless on macOS
WindowAllClosed == IF platform # "darwin" THEN "quit" ELSE appState

\* a window is closed; its child windows close with it; when none is left
\* Electron emits 'window-all-closed'
CloseWindow(id) ==
    /\ appState = "running"
    /\ IsOpen(id)
    /\ windows' = {w \in windows : w.id # id /\ w.parent # id}
    /\ appState' = IF windows' = {} THEN WindowAllClosed ELSE appState
    /\ UNCHANGED <<platform, mainWindow, created, jobs, lastSend>>

\* app.on('activate')
Activate ==
    /\ appState = "running"
    /\ IF Cardinality(windows) = 0
       THEN createWindow
       ELSE UNCHANGED <<mainWindow, windows, created>>
    /\ UNCHANGED <<platform, appState, jobs, lastSend>>

\* ipcMain.on('settings') and ipcMain.on('config'), sent by the main window's page
OpenChild(title) ==
    /\ created < MaxWindows
    /\ created' = created + 1
    /\ windows' = windows \cup {Win(created + 1, mainWindow, title)}
    /\ UNCHANGED <<platform, appState, mainWindow, jobs, lastSend>>

IpcSettings ==
    /\ appState = "running"
    /\ IsOpen(mainWindow)
    /\ OpenChild("Settings")

IpcConfig ==
    /\ appState = "running"
    /\ IsOpen(mainWindow)
    /\ OpenChild("Config")

\* ipcMain.on('build', buildGame), sent by the main window's page; the job
\* reports through app 'status' and 'console' events from then on
IpcBuild ==
    /\ appState = "running"
    /\ IsOpen(mainWindow)
    /\ "build" \notin jobs
    /\ jobs' = jobs \cup {"build"}
    /\ UNCHANGED <<platform, appState, mainWindow, windows, created, lastSend>>

\* ipcMain.on('launch', launchGame)
IpcLaunch ==
    /\ appState = "running"
    /\ IsOpen(mainWindow)
    /\ "launch" \notin jobs
    /\ jobs' = jobs \cup {"launch"}
    /\ UNCHANGED <<platform, appState, mainWindow, windows, created, lastSend>>

\* mainWindow.webContents.send(channel, value)
WebContentsSend ==
    IF mainWindow = 0 THEN "TypeError: mainWindow is undefined"
    ELSE IF ~IsOpen(mainWindow) THEN "TypeError: Object has been destroyed"
    ELSE "sent"

\* app.on('status')
Status(value) ==
    /\ appState = "running"
    /\ jobs # {}
    /\ lastSend' = Send("status", value, WebContentsSend,
                        WebContentsSend = "sent" /\ Includes(value, "Compiled game successfully!"))
    /\ UNCHANGED <<platform, appState, mainWindow, windows, created, jobs>>

\* app.on('console')
Console(value) ==
    /\ appState = "running"
    /\ jobs # {}
    /\ lastSend' = Send("console", value, WebContentsSend, FALSE)
    /\ UNCHANGED <<platform, appState, mainWindow, windows, created, jobs>>

InitMain ==
    /\ platform \in Platforms
    /\ appState = "starting"
    /\ mainWindow = 0
    /\ windows = {}
    /\ created = 0
    /\ jobs = {}
    /\ lastSend = NothingSent

----------------------------------------------------------------------------
(* Specifications                                                          *)

Init == InitInvoker /\ InitMain

\* concurrently outstanding calls
Start == \E c \in Calls, op \in ConcOps : \E a \in ArgsOf(op) : Call(c, op, a) /\ UNCHANGED mainVars
Resolves == \E c \in Calls, v \in ConcValues : Fulfil(c, v) /\ UNCHANGED mainVars
Rejects == \E c \in Calls, e \in ConcValues : Reject(c, e) /\ UNCHANGED mainVars
Next == Start \/ Resolves \/ Rejects
Spec == Init /\ [][Next]_vars

\* one call, every operation and every shape of settled value
StartOne == \E op \in Ops : \E a \in ArgsOf(op) : Call(1, op, a) /\ UNCHANGED mainVars
ResolvesOne == \E v \in Values : Fulfil(1, v) /\ UNCHANGED mainVars
RejectsOne == \E e \in Values : Reject(1, e) /\ UNCHANGED mainVars
NextShapes == StartOne \/ ResolvesOne \/ RejectsOne
SpecShapes == Init /\ [][NextShapes]_vars

\* the main process
NextMain ==
    \/ Ready /\ UNCHANGED invokerVars
    \/ (\E id \in 1..MaxWindows : CloseWindow(id)) /\ UNCHANGED invokerVars
    \/ Activate /\ UNCHANGED invokerVars
    \/ IpcSettings /\ UNCHANGED invokerVars
    \/ IpcConfig /\ UNCHANGED invokerVars
    \/ IpcBuild /\ UNCHANGED invokerVars
    \/ IpcLaunch /\ UNCHANGED invokerVars
    \/ (\E v \in StatusValues : Status(v)) /\ UNCHANGED invokerVars
    \/ (\E v \in ConsoleValues : Console(v)) /\ UNCHANGED invokerVars
SpecMain == Init /\ [][NextMain]_vars

----------------------------------------------------------------------------
(* Properties                                                              *)

Count(c, kind) == Cardinality({i \in DOMAIN trace[c] : trace[c][i].kind = kind})
Failed(c) == pc[c] = "done" /\ outcome[c].settled = "rejected"
Succeeded(c) == pc[c] = "done" /\ outcome[c].settled = "fulfilled"
Returned(x, v) == x.status = "returned" /\ x.val = v
BooleanOp(c) == req[c].op \in {"downloadOfficialVersion", "removeVersion"}

\* the fallback each operation is documented to degrade to
DocumentedFallback(op) ==
    IF op = "listDownloadedVersions" THEN Arr(<<>>)
    ELSE IF op \in {"getActiveVersion", "getActiveVersionFolder"} THEN Null
    ELSE IF op = "openVersionFolder" THEN Undefined
    ELSE Bool(FALSE)

\* C1: whatever value the backend rejects with, invoke_and_log does not
\* raise: it returns the fallback producer's result, so every operation
\* yields its documented fallback ([], null, undefined, false).
C1_NeverRaises ==
    \A c \in Calls : Failed(c) =>
        /\ Returned(inner[c], DocumentedFallback(req[c].op))
        /\ Returned(result[c], DocumentedFallback(req[c].op))
        /\ Count(c, "handle") = 1

\* C2: when the backend resolves with a value, invoke_and_log returns
\* exactly that value, emits no notification, no error-log line and no
\* exception-log entry, and does not invoke the fallback producer.
C2_SuccessUnchanged ==
    \A c \in Calls : Succeeded(c) =>
        /\ Returned(inner[c], outcome[c].val)
        /\ Count(c, "toast") = 0
        /\ Count(c, "errorLog") = 0
        /\ Count(c, "exceptionLog") = 0
        /\ Count(c, "handle") = 0

\* a call resolved with a value that has the shape of a structured error,
\* and one resolved with a falsy value
C2_Witness ==
    /\ Succeeded(1)
    /\ outcome[1].val \in {Obj(StrP("IOError"), StrP("not found")), Null}
    /\ req[1].op = "getActiveVersion"

\* C3: every failed call emits exactly one of {user notification,
\* exception-log entry}: never both and never neither.
C3_ExactlyOneChannel ==
    \A c \in Calls : Failed(c) => Count(c, "toast") + Count(c, "exceptionLog") = 1

HasStringFields(e) == e.t = "object" /\ e.name.t = "string" /\ e.message.t = "string"

\* C4: a failure whose name and message are strings (empty ones included)
\* gives exactly one error toast showing message, exactly one error-log line
\* 'Error invoking <method>: (<name>) <message>' and no exception-log entry.
C4_StructuredFailure ==
    \A c \in Calls : (Failed(c) /\ HasStringFields(outcome[c].val)) =>
        LET e == outcome[c].val
            line == "Error invoking " \o Method(req[c].op) \o ": (" \o e.name.s \o ") " \o e.message.s
        IN /\ Count(c, "toast") = 1
           /\ \E i \in DOMAIN trace[c] : trace[c][i] = Ev("toast", "", "error", Str(e.message.s))
           /\ Count(c, "errorLog") = 1
           /\ \E i \in DOMAIN trace[c] : trace[c][i].kind = "errorLog" /\ trace[c][i].text = line
           /\ Count(c, "exceptionLog") = 0

\* numbers, booleans, null, undefined, arrays, objects lacking name or message
IsOpaqueShape(e) ==
    \/ e.t \in {"number", "boolean", "null", "undefined", "array"}
    \/ e.t = "object" /\ (e.name.t = "undefined" \/ e.message.t = "undefined")

\* C5: a failure of neither the structured nor the plain-string shape shows no
\* notification and records exactly one exception-log entry tagged
\* 'Error invoking <method>' that carries the opaque value.
C5_OpaqueFailure ==
    \A c \in Calls : (Failed(c) /\ IsOpaqueShape(outcome[c].val)) =>
        /\ Count(c, "toast") = 0
        /\ Count(c, "errorLog") = 0
        /\ Count(c, "exceptionLog") = 1
        /\ \E i \in DOMAIN trace[c] :
              trace[c][i] = Ev("exceptionLog", "Error invoking " \o Method(req[c].op), "",
                               outcome[c].val)

\* C6: a failure that is a plain string s (the empty string included) gives
\* exactly one error toast showing s, exactly one error-log line
\* 'Error invoking <method>: <s>' and no exception-log entry.
C6_StringFailure ==
    \A c \in Calls : (Failed(c) /\ outcome[c].val.t = "string") =>
        LET s == outcome[c].val.s
        IN /\ Count(c, "toast") = 1
           /\ \E i \in DOMAIN trace[c] : trace[c][i] = Ev("toast", "", "error", Str(s))
           /\ Count(c, "errorLog") = 1
           /\ \E i \in DOMAIN trace[c] :
                 /\ trace[c][i].kind = "errorLog"
                 /\ trace[c][i].text = "Error invoking " \o Method(req[c].op) \o ": " \o s
           /\ Count(c, "exceptionLog") = 0

\* a call that failed with the empty string
C6_Witness ==
    /\ Failed(1)
    /\ outcome[1].val = Str("")
    /\ req[1].op = "listDownloadedVersions"

\* C7: downloadOfficialVersion and removeVersion report true exactly when
\* the backend resolves with a value other than false, and report false when
\* it resolves with false or fails with any failure shape.
C7_BooleanMapping ==
    \A c \in Calls : (pc[c] = "done" /\ BooleanOp(c)) =>
        /\ result[c].status = "returned"
        /\ result[c].val =
              Bool(outcome[c].settled = "fulfilled" /\ outcome[c].val # Bool(FALSE))

EffectsOf(c) == SubSeq(trace[c], 1, Len(trace[c]) - 1)
KindsOf(c) == [i \in DOMAIN EffectsOf(c) |-> EffectsOf(c)[i].kind]

\* C8: a call is Pending, or took exactly one of the branches Succeeded,
\* Failed-Structured, Failed-String, Failed-Opaque; on a failure branch the
\* notification / log effects come before the one invocation of the fallback
\* producer, and the call ends returning a value.
C8_StateMachine ==
    \A c \in Calls :
        /\ pc[c] \in {"idle", "pending"} => trace[c] = <<>> /\ result[c] = NotCompleted
        /\ pc[c] = "done" =>
              /\ result[c].status = "returned"
              /\ \/ Succeeded(c) /\ trace[c] = <<>>
                 \/ /\ Failed(c)
                    /\ Len(trace[c]) >= 2
                    /\ trace[c][Len(trace[c])].kind = "handle"
                    /\ KindsOf(c) \in {<<"toast", "errorLog">>, <<"exceptionLog">>}

SameInputs(c, d) == req[c] = req[d] /\ outcome[c] = outcome[d]

\* C9: each call makes exactly one backend round trip carrying its own method
\* and arguments, whatever other calls are outstanding, and two calls with the
\* same method, arguments and backend outcome end with the same result and
\* the same effects.
C9_Independent ==
    /\ \A c \in Calls :
          IF pc[c] = "idle" THEN sent[c] = <<>>
          ELSE sent[c] = <<[method |-> Method(req[c].op), args |-> req[c].args]>>
    /\ \A c, d \in Calls : (pc[c] = "done" /\ pc[d] = "done" /\ SameInputs(c, d)) =>
          /\ result[c] = result[d]
          /\ inner[c] = inner[d]
          /\ trace[c] = trace[d]

\* two calls with identical inputs, both resolved with true by the backend
C9_Witness ==
    /\ Succeeded(1) /\ Succeeded(2)
    /\ req[1] = req[2]
    /\ req[1].op = "downloadOfficialVersion"
    /\ outcome[1].val = Bool(TRUE) /\ outcome[2].val = Bool(TRUE)
    /\ result[1] = Completion("returned", Bool(TRUE))
    /\ result[2] = Completion("returned", Bool(TRUE))

\* C10: whenever a 'status' or 'console' event is handled, on any platform,
\* the mainWindow it is forwarded to has been created and is still open.
C10_MainWindowOpenOnSend ==
    lastSend.channel \in {"status", "console"} => lastSend.status = "sent"

====
